---- MODULE Spec2Model ----
(***************************************************************************)
(* Model of src/control/encoder.rs of drm-rs: the encoder Handle, the      *)
(* encoder Info snapshot, its accessors, the Type decode and               *)
(* Info::load_from_device.                                                 *)
(*                                                                         *)
(* Representation of machine values:                                       *)
(*   - a RawHandle / type code (u32 used as a number) is a natural number; *)
(*   - a u32 used as a bit mask (possible_crtcs, possible_clones, 1 << n)  *)
(*     is the set of the positions of its one-bits, a subset of            *)
(*     0 .. U32Bits-1, so the full 32-bit width is kept: `&` is set        *)
(*     intersection, `!= 0` is non-emptiness and a left shift moves every  *)
(*     position up and drops those that leave the word.                    *)
(***************************************************************************)
EXTENDS Integers, Sequences, FiniteSets, TLC

VARIABLES dev,      \* the encoder record the device currently holds
          queries,  \* get-encoder requests the device has received, in order
          calls,    \* history of load_from_device calls: handle, response, result
          ret,      \* the last value returned by an accessor on a loaded Info
          inp,      \* inputs of the pure functions (SpecFn)
          out       \* the last pure function applied and its value (SpecFn)

vars == <<dev, queries, calls, ret, inp, out>>

---------------------------------------------------------------------------
(* Bounds and input sets *)

MaxCalls == 2
MaxRaw == 66

U32Bits == 32

BitPositions == 0 .. (U32Bits - 1)

\* raw ids / integers fed to the pure functions; the last one is the largest
\* value the model checker's integers hold, bit pattern 0x7fffffff
RawVals == (0 .. MaxRaw) \cup {2147483647}

\* 0, 0b0101, 0b0010, 0x80000000, 0xffffffff
Masks == { {}, {0, 2}, {1}, {31}, BitPositions }

CrtcIdVals == {0, 7, 2147483647}

---------------------------------------------------------------------------
(* ffi: kernel encoder type codes, the values of the DRM_MODE_ENCODER_*      *)
(* constants of the kernel's drm_mode.h that the match arms of Type::from   *)
(* name                                                                    *)

DRM_MODE_ENCODER_NONE == 0
DRM_MODE_ENCODER_DAC == 1
DRM_MODE_ENCODER_TMDS == 2
DRM_MODE_ENCODER_LVDS == 3
DRM_MODE_ENCODER_TVDAC == 4
DRM_MODE_ENCODER_VIRTUAL == 5
DRM_MODE_ENCODER_DSI == 6
DRM_MODE_ENCODER_DPMST == 7
DRM_MODE_ENCODER_DPI == 8

---------------------------------------------------------------------------
(* Handle and its ResourceHandle impl *)

\* mutant: the raw id is stored in a 16-bit field
from_raw_u16(raw) == [encoder |-> raw % 65536]

\* struct Handle(control::RawHandle)
from_raw(raw) == [encoder |-> raw]

as_raw(h) == h.encoder

\* control::crtc::Handle, the same wrapper for the CRTC resource class
crtc_from_raw(raw) == [crtc |-> raw]

crtc_as_raw(h) == h.crtc

---------------------------------------------------------------------------
(* impl From<u32> for Type *)

\* mutant: the DPI arm is missing
Type_from_no_dpi(n) ==
    CASE n = DRM_MODE_ENCODER_NONE -> "None"
      [] n = DRM_MODE_ENCODER_DAC -> "DAC"
      [] n = DRM_MODE_ENCODER_TMDS -> "TMDS"
      [] n = DRM_MODE_ENCODER_LVDS -> "LVDS"
      [] n = DRM_MODE_ENCODER_TVDAC -> "TVDAC"
      [] n = DRM_MODE_ENCODER_VIRTUAL -> "Virtual"
      [] n = DRM_MODE_ENCODER_DSI -> "DSI"
      [] n = DRM_MODE_ENCODER_DPMST -> "DPMST"
      [] OTHER -> "None"

Type_from(n) ==
    CASE n = DRM_MODE_ENCODER_NONE -> "None"
      [] n = DRM_MODE_ENCODER_DAC -> "DAC"
      [] n = DRM_MODE_ENCODER_TMDS -> "TMDS"
      [] n = DRM_MODE_ENCODER_LVDS -> "LVDS"
      [] n = DRM_MODE_ENCODER_TVDAC -> "TVDAC"
      [] n = DRM_MODE_ENCODER_VIRTUAL -> "Virtual"
      [] n = DRM_MODE_ENCODER_DSI -> "DSI"
      [] n = DRM_MODE_ENCODER_DPMST -> "DPMST"
      [] n = DRM_MODE_ENCODER_DPI -> "DPI"
      [] OTHER -> "None"

---------------------------------------------------------------------------
(* impl Info: accessors *)

\* Option<control::crtc::Handle>
None == [some |-> FALSE]

Some(v) == [some |-> TRUE, val |-> v]

\* Wrapping<u32> << usize: the shift amount is masked with the word's
\* shift_max (U32Bits - 1) and bits shifted past the top are dropped
Wrapping_shl(x, n) ==
    LET s == n % U32Bits
    IN  {b + s : b \in x} \cap BitPositions

\* Wrapping(1u32)
One == {0}

encoder_type(self) == self.enc_type

\* mutant: the none-sentinel is not recognised
current_crtc_always_some(self) == Some(self.crtc_id)

current_crtc(self) ==
    IF crtc_as_raw(self.crtc_id) = 0 THEN None ELSE Some(self.crtc_id)

\* mutant: a plain shift, whose bit leaves the word for amounts above 31
supports_crtc_plain_shift(self, crtc) ==
    (self.possible_crtcs \cap ({crtc_as_raw(crtc)} \cap BitPositions)) # {}

supports_crtc(self, crtc) ==
    (self.possible_crtcs \cap Wrapping_shl(One, crtc_as_raw(crtc))) # {}

\* mutant: the test reads possible_crtcs
supports_clone_reads_crtcs(self, crtc) ==
    (self.possible_crtcs \cap Wrapping_shl(One, crtc_as_raw(crtc))) # {}

supports_clone(self, crtc) ==
    (self.possible_clones \cap Wrapping_shl(One, crtc_as_raw(crtc))) # {}

handle(self) == self.handle

---------------------------------------------------------------------------
(* The device behind ffi::ioctl_mode_getencoder *)

\* encoder ids the device knows
DeviceEncoders == {40, 41}

\* the device's CRTCs in enumeration order (position 1 is CRTC index 0)
DeviceCrtcs == <<32, 34>>

\* handles a caller passes: the none-sentinel and the device's encoders
Handles == {from_raw(r) : r \in {0} \cup DeviceEncoders}

Errnos == {"ENOENT", "EACCES"}

\* a known type code and one no kernel constant names
DevTypes == {DRM_MODE_ENCODER_TMDS, 9}

DevCrtcIds == {0, 7}

\* 0b0101
DevCrtcMasks == { {0, 2} }

\* 0b0010
DevCloneMasks == { {1} }

DevStates ==
    [encoder_type : DevTypes, crtc_id : DevCrtcIds,
     possible_crtcs : DevCrtcMasks, possible_clones : DevCloneMasks]

\* Result<T>
Ok(v) == [ok |-> TRUE, val |-> v]

Err(e) == [ok |-> FALSE, err |-> e]

\* ffi::drm_mode_get_encoder: Default::default() with encoder_id set
GetEncoderRequest(h) ==
    [encoder_id |-> as_raw(h), encoder_type |-> 0, crtc_id |-> 0,
     possible_crtcs |-> {}, possible_clones |-> {}]

\* the outcomes of one get-encoder ioctl: any error, or, for an encoder the
\* device knows, the record filled in from the device's state; the id field
\* of the filled record is whatever the device writes there
ioctl_mode_getencoder(device, raw) ==
    {Err(e) : e \in Errnos}
    \cup (IF raw.encoder_id \in DeviceEncoders
          THEN {Ok([encoder_id |-> id, encoder_type |-> device.encoder_type,
                    crtc_id |-> device.crtc_id,
                    possible_crtcs |-> device.possible_crtcs,
                    possible_clones |-> device.possible_clones])
                  : id \in DeviceEncoders}
          ELSE {})

\* the From conversion try! applies to the ioctl's error
Error_from(e) == e

---------------------------------------------------------------------------
(* impl ResourceInfo for Info *)

\* mutant: every ioctl error is reported as ENOENT
load_from_device_one_error(h, outcome) ==
    IF ~outcome.ok
    THEN Err("ENOENT")
    ELSE Ok([handle |-> h,
             crtc_id |-> crtc_from_raw(outcome.val.crtc_id),
             enc_type |-> Type_from(outcome.val.encoder_type),
             possible_crtcs |-> outcome.val.possible_crtcs,
             possible_clones |-> outcome.val.possible_clones])

\* mutant: the handle is taken from the record the device returned
load_from_device_record_id(h, outcome) ==
    IF ~outcome.ok
    THEN Err(Error_from(outcome.err))
    ELSE Ok([handle |-> from_raw(outcome.val.encoder_id),
             crtc_id |-> crtc_from_raw(outcome.val.crtc_id),
             enc_type |-> Type_from(outcome.val.encoder_type),
             possible_crtcs |-> outcome.val.possible_crtcs,
             possible_clones |-> outcome.val.possible_clones])

\* mutant: the two masks are read from each other's field
load_from_device_swapped_masks(h, outcome) ==
    IF ~outcome.ok
    THEN Err(Error_from(outcome.err))
    ELSE Ok([handle |-> h,
             crtc_id |-> crtc_from_raw(outcome.val.crtc_id),
             enc_type |-> Type_from(outcome.val.encoder_type),
             possible_crtcs |-> outcome.val.possible_clones,
             possible_clones |-> outcome.val.possible_crtcs])

\* load_from_device, given the outcome of the one ioctl it issues
load_from_device(h, outcome) ==
    IF ~outcome.ok
    THEN Err(Error_from(outcome.err))
    ELSE Ok([handle |-> h,
             crtc_id |-> crtc_from_raw(outcome.val.crtc_id),
             enc_type |-> Type_from(outcome.val.encoder_type),
             possible_crtcs |-> outcome.val.possible_crtcs,
             possible_clones |-> outcome.val.possible_clones])

---------------------------------------------------------------------------
(* System specification: a device, callers loading Infos and reading them *)

NoRet == [op |-> "none"]

NoInp == [arg |-> 0, crtc_id |-> 0, possible_crtcs |-> {}, possible_clones |-> {}]

NoOut == [op |-> "none"]

Init ==
    /\ dev \in DevStates
    /\ queries = <<>>
    /\ calls = <<>>
    /\ ret = NoRet
    /\ inp = NoInp
    /\ out = NoOut

\* the Infos callers hold
LoadedInfos == {calls[i].result.val : i \in {j \in DOMAIN calls : calls[j].result.ok}}

DeviceCrtcHandles == {crtc_from_raw(DeviceCrtcs[i]) : i \in DOMAIN DeviceCrtcs}

\* the device's encoder state changes under the caller
DeviceChange ==
    /\ dev' \in DevStates \ {dev}
    /\ UNCHANGED <<queries, calls, ret, inp, out>>

\* mutant: a failed query is issued a second time
LoadFromDevice_retry ==
    /\ Len(calls) < MaxCalls
    /\ \E h \in Handles :
          LET raw == GetEncoderRequest(h)
          IN  \E outcome \in ioctl_mode_getencoder(dev, raw) :
                  /\ queries' = IF outcome.ok
                                THEN Append(queries, raw.encoder_id)
                                ELSE Append(Append(queries, raw.encoder_id), raw.encoder_id)
                  /\ calls' = Append(calls, [handle |-> h, resp |-> outcome,
                                             result |-> load_from_device(h, outcome)])
    /\ UNCHANGED <<dev, ret, inp, out>>

LoadFromDevice ==
    /\ Len(calls) < MaxCalls
    /\ \E h \in Handles :
          LET raw == GetEncoderRequest(h)
          IN  \E outcome \in ioctl_mode_getencoder(dev, raw) :
                  /\ queries' = Append(queries, raw.encoder_id)
                  /\ calls' = Append(calls, [handle |-> h, resp |-> outcome,
                                             result |-> load_from_device(h, outcome)])
    /\ UNCHANGED <<dev, ret, inp, out>>

CallHandle ==
    /\ \E self \in LoadedInfos : ret' = [op |-> "handle", val |-> handle(self)]
    /\ UNCHANGED <<dev, queries, calls, inp, out>>

CallEncoderType ==
    /\ \E self \in LoadedInfos : ret' = [op |-> "encoder_type", val |-> encoder_type(self)]
    /\ UNCHANGED <<dev, queries, calls, inp, out>>

CallCurrentCrtc ==
    /\ \E self \in LoadedInfos : ret' = [op |-> "current_crtc", val |-> current_crtc(self)]
    /\ UNCHANGED <<dev, queries, calls, inp, out>>

CallSupportsCrtc ==
    /\ \E self \in LoadedInfos, crtc \in DeviceCrtcHandles :
          ret' = [op |-> "supports_crtc", val |-> supports_crtc(self, crtc)]
    /\ UNCHANGED <<dev, queries, calls, inp, out>>

CallSupportsClone ==
    /\ \E self \in LoadedInfos, crtc \in DeviceCrtcHandles :
          ret' = [op |-> "supports_clone", val |-> supports_clone(self, crtc)]
    /\ UNCHANGED <<dev, queries, calls, inp, out>>

Next ==
    \/ DeviceChange
    \/ LoadFromDevice
    \/ CallHandle
    \/ CallEncoderType
    \/ CallCurrentCrtc
    \/ CallSupportsCrtc
    \/ CallSupportsClone

Spec == Init /\ [][Next]_vars

---------------------------------------------------------------------------
(* Function specification: each function applied to inputs drawn in Init *)

InitFn ==
    /\ dev \in DevStates
    /\ queries = <<>>
    /\ calls = <<>>
    /\ ret = NoRet
    /\ inp \in [arg : RawVals, crtc_id : CrtcIdVals,
                possible_crtcs : Masks, possible_clones : Masks]
    /\ out = NoOut

\* a successful ioctl outcome carrying the inputs
InpOutcome ==
    Ok([encoder_id |-> inp.arg, encoder_type |-> inp.arg, crtc_id |-> inp.crtc_id,
        possible_crtcs |-> inp.possible_crtcs, possible_clones |-> inp.possible_clones])

\* the Info a load that received InpOutcome holds
InpInfo ==
    [handle |-> from_raw(inp.arg),
     crtc_id |-> crtc_from_raw(inp.crtc_id),
     enc_type |-> Type_from(inp.arg),
     possible_crtcs |-> inp.possible_crtcs,
     possible_clones |-> inp.possible_clones]

FnRoundTrip ==
    /\ out' = [op |-> "from_raw", h |-> from_raw(inp.arg), val |-> as_raw(from_raw(inp.arg))]
    /\ UNCHANGED <<dev, queries, calls, ret, inp>>

FnTypeFrom ==
    /\ out' = [op |-> "Type::from", val |-> Type_from(inp.arg)]
    /\ UNCHANGED <<dev, queries, calls, ret, inp>>

FnLoad ==
    /\ out' = [op |-> "load_from_device", val |-> load_from_device(from_raw(inp.arg), InpOutcome)]
    /\ UNCHANGED <<dev, queries, calls, ret, inp>>

FnCurrentCrtc ==
    /\ out' = [op |-> "current_crtc", val |-> current_crtc(InpInfo)]
    /\ UNCHANGED <<dev, queries, calls, ret, inp>>

FnSupportsCrtc ==
    /\ out' = [op |-> "supports_crtc", val |-> supports_crtc(InpInfo, crtc_from_raw(inp.arg))]
    /\ UNCHANGED <<dev, queries, calls, ret, inp>>

FnSupportsClone ==
    /\ out' = [op |-> "supports_clone", val |-> supports_clone(InpInfo, crtc_from_raw(inp.arg))]
    /\ UNCHANGED <<dev, queries, calls, ret, inp>>

NextFn ==
    \/ FnRoundTrip
    \/ FnTypeFrom
    \/ FnLoad
    \/ FnCurrentCrtc
    \/ FnSupportsCrtc
    \/ FnSupportsClone

SpecFn == InitFn /\ [][NextFn]_vars

---------------------------------------------------------------------------
(* Properties of the functions, checked under SpecFn *)

\* C1: supports_crtc on a CRTC handle of raw value k in 0..31 returns true
\* iff bit k of possible_crtcs is 1; for k >= 32 it returns (never faults)
\* true iff bit (k mod 32) of possible_crtcs is 1.
C1_SupportsCrtcTestsWrappedBit ==
    out.op = "supports_crtc" =>
        /\ out.val \in BOOLEAN
        /\ inp.arg < U32Bits => (out.val <=> inp.arg \in inp.possible_crtcs)
        /\ inp.arg >= U32Bits => (out.val <=> (inp.arg % U32Bits) \in inp.possible_crtcs)

\* supports_crtc answered true for a handle value above 31
C1_Witness ==
    /\ out.op = "supports_crtc"
    /\ inp.arg = 34
    /\ inp.possible_crtcs = {0, 2}
    /\ out.val = TRUE

\* C6: current_crtc returns None iff the raw value of crtc_id is 0; for a
\* non-zero raw value v it returns Some of the CRTC handle of raw value v.
C6_CurrentCrtcNoneIffZero ==
    out.op = "current_crtc" =>
        /\ (out.val = None) <=> (inp.crtc_id = 0)
        /\ inp.crtc_id # 0 =>
              /\ out.val.some
              /\ crtc_as_raw(out.val.val) = inp.crtc_id
              /\ out.val = Some(crtc_from_raw(inp.crtc_id))

\* current_crtc returned Some for the raw id 7
C6_Witness ==
    /\ out.op = "current_crtc"
    /\ inp.crtc_id = 7
    /\ out.val = Some(crtc_from_raw(7))

\* C7: the Type decode is total: each of the nine kernel constants decodes
\* to its own named variant, every other integer decodes to None, and a load
\* whose ioctl succeeded succeeds whatever type code the record carries.
C7_TypeDecodeTotal ==
    LET Named == { <<DRM_MODE_ENCODER_NONE, "None">>, <<DRM_MODE_ENCODER_DAC, "DAC">>,
                   <<DRM_MODE_ENCODER_TMDS, "TMDS">>, <<DRM_MODE_ENCODER_LVDS, "LVDS">>,
                   <<DRM_MODE_ENCODER_TVDAC, "TVDAC">>, <<DRM_MODE_ENCODER_VIRTUAL, "Virtual">>,
                   <<DRM_MODE_ENCODER_DSI, "DSI">>, <<DRM_MODE_ENCODER_DPMST, "DPMST">>,
                   <<DRM_MODE_ENCODER_DPI, "DPI">> }
        Expected == IF \E p \in Named : p[1] = inp.arg
                    THEN {p[2] : p \in {q \in Named : q[1] = inp.arg}}
                    ELSE {"None"}
    IN  /\ Cardinality({p[2] : p \in Named}) = 9
        /\ out.op = "Type::from" => Expected = {out.val}
        /\ out.op = "load_from_device" =>
              /\ out.val.ok
              /\ Expected = {encoder_type(out.val.val)}

\* a load succeeded on a record whose type code no constant names
C7_Witness ==
    /\ out.op = "load_from_device"
    /\ inp.arg = 9
    /\ out.val.ok
    /\ encoder_type(out.val.val) = "None"

\* C8: supports_clone is the same bit test against possible_clones: true iff
\* bit (k mod 32) of possible_clones is 1, whatever possible_crtcs is; and
\* supports_crtc does not depend on possible_clones.
C8_SupportsCloneTestsClones ==
    LET crtc == crtc_from_raw(inp.arg)
    IN  /\ out.op = "supports_clone" =>
              /\ out.val <=> (inp.arg % U32Bits) \in inp.possible_clones
              /\ \A m \in Masks :
                    supports_clone([InpInfo EXCEPT !.possible_crtcs = m], crtc) = out.val
        /\ out.op = "supports_crtc" =>
              \A m \in Masks :
                  supports_crtc([InpInfo EXCEPT !.possible_clones = m], crtc) = out.val

\* supports_clone answered true where the same bit of possible_crtcs is 0
C8_Witness ==
    /\ out.op = "supports_clone"
    /\ out.val = TRUE
    /\ inp.arg = 33
    /\ inp.possible_clones = {1}
    /\ inp.possible_crtcs = {0, 2}

\* C9: for every raw id v, 0 included, from_raw(v).as_raw() = v, and two
\* handles are equal exactly when their raw values are equal.
C9_HandleRoundTrip ==
    out.op = "from_raw" =>
        /\ out.val = inp.arg
        /\ \A w \in RawVals : (out.h = from_raw(w)) <=> (inp.arg = w)

\* the none-sentinel went through from_raw and as_raw
C9_Witness ==
    /\ out.op = "from_raw"
    /\ inp.arg = 0
    /\ out.val = 0

---------------------------------------------------------------------------
(* Properties of the system, checked under Spec *)

\* C2: the bit tested by supports_crtc / supports_clone is the CRTC's index
\* in the device's enumeration order: for a CRTC at index i whose raw id r
\* has r mod 32 # i, supports_crtc returns bit i of possible_crtcs and
\* supports_clone bit i of possible_clones.
C2_BitIsEnumerationIndex ==
    \A self \in LoadedInfos : \A pos \in DOMAIN DeviceCrtcs :
        LET i == pos - 1
            r == DeviceCrtcs[pos]
        IN  r % U32Bits # i =>
              /\ supports_crtc(self, crtc_from_raw(r)) <=> i \in self.possible_crtcs
              /\ supports_clone(self, crtc_from_raw(r)) <=> i \in self.possible_clones

C4_OneQueryPerCall ==
    /\ Len(queries) = Len(calls)
    /\ \A i \in DOMAIN calls : queries[i] = as_raw(calls[i].handle)

\* two loads of the same handle, the first successful, the second failed,
\* and an accessor called afterwards
C4_Witness ==
    /\ Len(calls) = 2
    /\ calls[1].handle = calls[2].handle
    /\ calls[1].result.ok
    /\ ~calls[2].result.ok
    /\ ret.op = "supports_crtc"
    /\ Len(queries) = 2

\* C5: the Info a successful load_from_device(device, h) returns has
\* handle() = h, whatever encoder id the device's record carries.
C5_HandleIsArgument ==
    /\ \A i \in DOMAIN calls :
          calls[i].result.ok => handle(calls[i].result.val) = calls[i].handle
    /\ ret.op = "handle" => \E i \in DOMAIN calls : calls[i].handle = ret.val

\* a load succeeded on a record carrying another encoder's id
C5_Witness ==
    \E i \in DOMAIN calls :
        /\ calls[i].result.ok
        /\ calls[i].resp.val.encoder_id # as_raw(calls[i].handle)
        /\ ret = [op |-> "handle", val |-> calls[i].handle]

\* C10: an Info is a point-in-time copy of the record of the query that
\* created it: through device changes and further loads its fields stay
\* those of that record, and no step changes an Info already returned.
C10_InfoIsSnapshot ==
    /\ [](\A i \in DOMAIN calls :
            calls[i].resp.ok =>
                /\ calls[i].result.ok
                /\ crtc_as_raw(calls[i].result.val.crtc_id) = calls[i].resp.val.crtc_id
                /\ calls[i].result.val.possible_crtcs = calls[i].resp.val.possible_crtcs
                /\ calls[i].result.val.possible_clones = calls[i].resp.val.possible_clones
                /\ calls[i].result.val.enc_type = Type_from(calls[i].resp.val.encoder_type))
    /\ [][\A i \in DOMAIN calls : calls'[i] = calls[i]]_vars

\* the device changed after the first load; the first Info still shows the
\* old record and the second load's Info shows the new one
C10_Witness ==
    /\ Len(calls) = 2
    /\ calls[1].result.ok
    /\ calls[2].result.ok
    /\ calls[1].resp.val.crtc_id = 0
    /\ calls[1].result.val.enc_type = "TMDS"
    /\ dev.crtc_id = 7
    /\ dev.encoder_type = 9
    /\ current_crtc(calls[1].result.val) = None
    /\ current_crtc(calls[2].result.val) = Some(crtc_from_raw(7))
    /\ calls[2].result.val.enc_type = "None"

====
